---- MODULE Spec2Model ----
(***************************************************************************)
(* Fully connected layers of hebel: HiddenLayer (hidden_layer.py) and      *)
(* SoftmaxLayer (softmax_layer.py).                                        *)
(*                                                                         *)
(* A layer object holds references to its parameter arrays W and b, which  *)
(* live on a heap of array objects (an array is device- or host-resident). *)
(* Every method of the two classes is one action: it reads the layer and   *)
(* its arguments, changes the heap and the layer as the method does, and   *)
(* leaves its arguments, its result and the exception it raised in `call`. *)
(*                                                                         *)
(* Numbers are exact rationals.  An array value is a record                *)
(*   [shape |-> <<rows, cols>> or <<n>>, data |-> row-major numerators,    *)
(*    den |-> common denominator]                                          *)
(* kept in lowest terms, so that equal arrays are equal records.           *)
(***************************************************************************)
EXTENDS Integers, Sequences, FiniteSets, TLC

\* ------------------------------------------------------------------ bounds

\* Largest n_in, n_units / n_out, batch size and column count of an argument.
MaxDim == 2
\* Array arguments are filled with base, base + step, base + 2*step, ...
\* (row-major), base in -MaxVal..MaxVal.
MaxVal == 1
\* Largest magnitude of a parameter numerator that update_parameters may
\* still produce in the model.
MaxParam == 3
\* Longest string passed as the parameters argument.
MaxChars == 3

Dims == 1..MaxDim
Vals == (-MaxVal)..MaxVal
Steps == {0, 1}

\* ------------------------------------------------------------ arithmetic

Abs(x) == IF x < 0 THEN -x ELSE x

Sgn(x) == IF x > 0 THEN 1 ELSE IF x < 0 THEN -1 ELSE 0

RECURSIVE Gcd(_, _)
Gcd(a, b) == IF b = 0 THEN a ELSE Gcd(b, a % b)

RECURSIVE GcdSeq(_, _, _)
GcdSeq(s, i, g) ==
    IF i > Len(s) \/ g = 1 THEN g ELSE GcdSeq(s, i + 1, Gcd(g, Abs(s[i])))

RECURSIVE SumFn(_, _)
\* f[1] + ... + f[n]
SumFn(f, n) == IF n = 0 THEN 0 ELSE f[n] + SumFn(f, n - 1)

RECURSIVE Prod(_)
Prod(s) == IF s = <<>> THEN 1 ELSE Head(s) * Prod(Tail(s))

\* A rational scalar in lowest terms, positive denominator.
Rat(n, d) ==
    LET s == IF d < 0 THEN -1 ELSE 1
        g == Gcd(Abs(n), Abs(d))
    IN  [num |-> (s * n) \div g, den |-> (s * d) \div g]

RatSub(x, y) == Rat(x.num * y.den - y.num * x.den, x.den * y.den)
RatAdd(x, y) == Rat(x.num * y.den + y.num * x.den, x.den * y.den)
RatMul(x, y) == Rat(x.num * y.num, x.den * y.den)
RatPos(x) == x.num > 0
RatIsZero(x) == x.num = 0
RatLess(x, y) == x.num * y.den < y.num * x.den
RatLeq(x, y) == x.num * y.den <= y.num * x.den
Zero == Rat(0, 1)
One == Rat(1, 1)

\* ---------------------------------------------------------------- arrays

Size(shape) == Prod(shape)

\* The function f on 1..n as a sequence.
AsSeq(f) == SubSeq(f, 1, Len(f))

\* numerators data over den, divided by their common divisor g
Lowest(shape, data, den, g) ==
    [shape |-> shape,
     data |-> AsSeq([i \in 1..Len(data) |-> data[i] \div g]),
     den |-> den \div g]

Reduced(shape, data, den) == Lowest(shape, data, den, GcdSeq(data, 1, den))

\* The array of the given shape with numerators data over den, in lowest terms.
Mk(shape, data, den) == Reduced(shape, AsSeq(data), den)

Rows(a) == a.shape[1]
Cols(a) == a.shape[2]
At(a, i, j) == a.data[(i - 1) * Cols(a) + j]

\* numpy.arange-like fill: base, base + step, ... in row-major order.
Ramp(shape, base, step) ==
    Mk(shape, [i \in 1..Size(shape) |-> base + step * (i - 1)], 1)

Fill(shape, v) == Ramp(shape, v, 0)

\* An array in place of "no array" (None) in a record field.
NoArr == [shape |-> <<>>, data |-> <<>>, den |-> 1]

\* scalar * array
Scale(x, a) ==
    Mk(a.shape, [i \in 1..Len(a.data) |-> x.num * a.data[i]], x.den * a.den)

\* a + b elementwise, equal shapes
AddArr(a, b) ==
    Mk(a.shape,
       [i \in 1..Len(a.data) |-> a.data[i] * b.den + b.data[i] * a.den],
       a.den * b.den)

\* a - b elementwise, equal shapes
SubArr(a, b) == AddArr(a, Scale(Rat(-1, 1), b))

\* a * b elementwise, equal shapes
MulArr(a, b) ==
    Mk(a.shape, [i \in 1..Len(a.data) |-> a.data[i] * b.data[i]],
       a.den * b.den)

SignArr(a) == Mk(a.shape, [i \in 1..Len(a.data) |-> Sgn(a.data[i])], 1)

AbsArr(a) == Mk(a.shape, [i \in 1..Len(a.data) |-> Abs(a.data[i])], a.den)

\* The sum of all entries, a rational scalar.
SumArr(a) == Rat(SumFn(a.data, Len(a.data)), a.den)

Transpose(a) ==
    [shape |-> <<Cols(a), Rows(a)>>,
     data |-> AsSeq([k \in 1..Len(a.data) |->
                 At(a, ((k - 1) % Rows(a)) + 1, ((k - 1) \div Rows(a)) + 1)]),
     den |-> a.den]

\* The plain matrix product of two aligned matrices.
MatMul(a, b) ==
    Mk(<<Rows(a), Cols(b)>>,
       [k \in 1..(Rows(a) * Cols(b)) |->
          LET i == ((k - 1) \div Cols(b)) + 1
              j == ((k - 1) % Cols(b)) + 1
          IN  SumFn([t \in 1..Cols(a) |-> At(a, i, t) * At(b, t, j)], Cols(a))],
       a.den * b.den)

\* ------------------------------------------- kernels used by the layers
\* The elementwise, matrix and reduction kernels (hebel.pycuda_ops) and the
\* device arrays (pycuda.gpuarray) are collaborators of the two layers.

\* linalg.dot(x, y, transa, transb): operands as the flags say.
DotOperand(a, trans) == IF trans = "T" THEN Transpose(a) ELSE a

\* linalg.dot accepts two matrices whose inner dimensions agree.
DotAligned(a, b, transa, transb) ==
    /\ Len(a.shape) = 2
    /\ Len(b.shape) = 2
    /\ Cols(DotOperand(a, transa)) = Rows(DotOperand(b, transb))

dot(a, b, transa, transb) ==
    MatMul(DotOperand(a, transa), DotOperand(b, transb))

\* add_vec_to_mat(mat, vec): vec is added to every row of mat.
AddVecAligned(mat, vec) == Len(vec.shape) = 1 /\ vec.shape[1] = Cols(mat)

add_vec_to_mat(mat, vec) ==
    Mk(mat.shape,
       [k \in 1..Len(mat.data) |->
          mat.data[k] * vec.den + vec.data[((k - 1) % Cols(mat)) + 1] * mat.den],
       mat.den * vec.den)

\* matrix_sum_out_axis(mat, 0): the sum over the rows, one entry per column.
matrix_sum_out_axis(mat) ==
    Mk(<<Cols(mat)>>,
       [j \in 1..Cols(mat) |->
          SumFn([i \in 1..Rows(mat) |-> At(mat, i, j)], Rows(mat))],
       mat.den)

ActivationNames == {"sigmoid", "tanh", "relu", "linear"}

\* The activation kernels.  relu and linear are exact.  sigmoid and tanh are
\* transcendental: they are evaluated exactly at 0 (1/2 and 0) and at their
\* limits elsewhere (0 or 1, -1 or 1), which keeps every value rational.
sigmoid(a) ==
    Mk(a.shape,
       [i \in 1..Len(a.data) |->
          IF a.data[i] > 0 THEN 2 ELSE IF a.data[i] < 0 THEN 0 ELSE 1], 2)

tanh(a) == SignArr(a)

relu(a) ==
    Mk(a.shape,
       [i \in 1..Len(a.data) |-> IF a.data[i] > 0 THEN a.data[i] ELSE 0], a.den)

linear(a) == a

\* The derivative kernels take the activations (the value after f).
df_sigmoid(a) == MulArr(a, SubArr(Fill(a.shape, 1), a))

df_tanh(a) == SubArr(Fill(a.shape, 1), MulArr(a, a))

df_relu(a) ==
    Mk(a.shape, [i \in 1..Len(a.data) |-> IF a.data[i] > 0 THEN 1 ELSE 0], 1)

df_linear(a) == Fill(a.shape, 1)

\* softmax(x): every row becomes a distribution.  Transcendental as well: a
\* row is evaluated at its limit, the uniform distribution over the row's
\* maxima (exact for a constant row).
softmax(a) ==
    LET IsMax(i, j) == \A t \in 1..Cols(a) : At(a, i, t) <= At(a, i, j)
        NMax(i) == Cardinality({t \in 1..Cols(a) : IsMax(i, t)})
        \* every row's entry over the common denominator Cols(a)!
        Common == Prod([t \in 1..Cols(a) |-> t])
    IN  Mk(a.shape,
           [k \in 1..Len(a.data) |->
              LET i == ((k - 1) \div Cols(a)) + 1
                  j == ((k - 1) % Cols(a)) + 1
              IN  IF IsMax(i, j) THEN Common \div NMax(i) ELSE 0],
           Common)

\* nan_to_zeros(x, target): every array of the model holds finite numbers
\* only, of which the kernel changes none.
nan_to_zeros(a) == a

\* numpy argmax(1): the first column holding the row's maximum, 0-based.
argmax1(a) ==
    [i \in 1..Rows(a) |->
       (CHOOSE j \in 1..Cols(a) :
          /\ \A t \in 1..Cols(a) : At(a, i, t) <= At(a, i, j)
          /\ \A t \in 1..(j - 1) : At(a, i, t) < At(a, i, j)) - 1]

\* ----------------------------------------------------------------- state

VARIABLES
    heap,   \* objects by id: [val |-> array, dev |-> "gpu" | "host" | "str" | "free"]
    layer,  \* the layer objects by id
    call    \* the last call: operation, arguments, result, exception raised

vars == <<heap, layer, call>>

LayerIds == {1, 2}

\* Ids of the arrays that layers hold (their W and b).  A layer holds two
\* arrays; a call may create two more before the arrays it replaces are
\* dropped.
ParamIdSeq == <<"a1", "a2", "a3", "a4", "a5", "a6">>
ParamIds == {ParamIdSeq[i] : i \in 1..Len(ParamIdSeq)}

\* The arrays of a call: its array arguments (the caller's arrays) and the
\* local arrays that a kernel writes in place.
LocalIds ==
    {"input_data", "df_output", "targets", "cache0", "cache1",
     "activations", "lin_activations", "dropout_mask", "delta", "df_W",
     "targets_non_nan"}

ArrIds == ParamIds \cup LocalIds

FreeObj == [val |-> NoArr, dev |-> "free"]

\* A str object: it has no shape and no kernel takes it.
StrObj == [val |-> NoArr, dev |-> "str"]

\* No layer object (the name is unbound, or its construction raised).
NoLayer ==
    [cls |-> "none", n_in |-> 0, n_units |-> 0, W |-> "", b |-> "",
     activation_function |-> "", dropout |-> Zero,
     weights_scale |-> [coef |-> Zero, fan |-> 0],
     l1_penalty_weight |-> Zero, l2_penalty_weight |-> Zero,
     lr_multiplier |-> <<>>, test_error_fct |-> ""]

\* A scalar result: factor * kernel(args).  The kernel "one" is the number
\* 1; the logarithmic reductions are named, not evaluated.
NoScalar == [kernel |-> "none", args |-> <<>>, factor |-> Zero]
Exact(r) == [kernel |-> "one", args |-> <<>>, factor |-> r]

\* The arrays some layer refers to.
Referenced(lay) ==
    {lay[l].W : l \in {k \in LayerIds : lay[k].cls # "none"}}
        \cup {lay[l].b : l \in {k \in LayerIds : lay[k].cls # "none"}}

\* An array no layer refers to is dropped when the call returns (the
\* caller's arrays and the results are kept by value in `call`).
Collect(h, lay) ==
    [i \in ArrIds |-> IF i \in Referenced(lay) THEN h[i] ELSE FreeObj]

\* The first unused parameter array id.
NewId(h) ==
    ParamIdSeq[CHOOSE i \in 1..Len(ParamIdSeq) :
                  /\ h[ParamIdSeq[i]].dev = "free"
                  /\ \A j \in 1..(i - 1) : h[ParamIdSeq[j]].dev # "free"]

Gpu(a) == [val |-> a, dev |-> "gpu"]

\* name = a new device array
Put(h, id, a) == [h EXCEPT ![id] = Gpu(a)]
\* a kernel writes the array in place
Store(h, id, a) == [h EXCEPT ![id].val = a]
Val(h, id) == h[id].val

Wval(l) == heap[layer[l].W].val
bval(l) == heap[layer[l].b].val
Wdev(l) == heap[layer[l].W].dev
bdev(l) == heap[layer[l].b].dev

\* ---------------------------------------------------- Python arguments

\* A dropout argument: a bool (the former interface) or a number.
PyBool(v) == [type |-> "bool", b |-> v, x |-> Zero]
PyFloat(r) == [type |-> "float", b |-> FALSE, x |-> r]

\* An optional number: None or a value.
None == [given |-> FALSE, x |-> Zero]
Some(r) == [given |-> TRUE, x |-> r]

\* An optional boolean: left out or a value.
Omitted == [given |-> FALSE, x |-> FALSE]
Given(v) == [given |-> TRUE, x |-> v]

\* The parameters argument: None, a string, or a pair of arrays.
\* An array of the pair is the caller's own new array (Wid = "", bid = "") or
\* an array that a layer already holds (its id).  A string has chars
\* characters, and is_file tells whether open() of it succeeds; unpacked
\* into two names it gives its characters, which are str objects.
NoParameters ==
    [kind |-> "none", W |-> FreeObj, b |-> FreeObj, Wid |-> "", bid |-> "",
     chars |-> 0, is_file |-> FALSE]
StringParameters(chars, is_file) ==
    [kind |-> "str", W |-> StrObj, b |-> StrObj, Wid |-> "", bid |-> "",
     chars |-> chars, is_file |-> is_file]
PairParameters(w, b) ==
    [kind |-> "pair", W |-> w, b |-> b, Wid |-> "", bid |-> "",
     chars |-> 0, is_file |-> FALSE]

\* 1/sqrt(n), kept symbolic.
InvSqrt(n) == [num |-> 1, sqrt_den |-> n]

\* weights_scale is coef * sqrt(6 / fan), or coef alone when fan = 0.
\* sampler.fill_uniform draws every entry u from [0, 1), so an entry w of
\* weights_scale * (u - .5) satisfies -scale/2 <= w < scale/2; the squares
\* are compared to keep the square root out of the arithmetic.
InSamplerRange(a, scale) ==
    \A i \in 1..Len(a.data) :
        LET n == a.data[i]
            d == a.den
            c == scale.coef
        IN  IF scale.fan = 0
            THEN /\ -(c.num * d) <= 2 * n * c.den
                 /\ 2 * n * c.den < c.num * d
            ELSE /\ n >= 0 =>
                      4 * n * n * scale.fan * c.den * c.den
                          < 6 * c.num * c.num * d * d
                 /\ n < 0 =>
                      4 * n * n * scale.fan * c.den * c.den
                          <= 6 * c.num * c.num * d * d

\* ---------------------------------------------------------- the caller

\* The caller's array arguments as a call left them.
NoArgs == [input_data |-> NoArr, df_output |-> NoArr, targets |-> NoArr,
           cache |-> <<>>]

\* No call in progress and no result held by the caller.
Idle ==
    [op |-> "idle", l |-> 0, err |-> "none",
     input_data |-> NoArr, df_output |-> NoArr, targets |-> NoArr,
     cache_given |-> FALSE, cache |-> <<>>,
     prediction |-> FALSE, average |-> FALSE, values |-> <<>>,
     ret_cache |-> <<>>, ret |-> NoArr, mask_sampled |-> FALSE,
     delta |-> NoArr, df_W |-> NoArr, df_b |-> NoArr, df_input |-> NoArr,
     after |-> NoArgs,
     metric |-> "none", metric_prediction |-> FALSE,
     set_value |-> <<>>,
     n_in |-> 0, n_units |-> 0, activation_function |-> "",
     dropout |-> PyFloat(Zero), parameters |-> NoParameters,
     test_error_fct |-> "",
     average_arg |-> Omitted, prediction_arg |-> Omitted,
     scalar |-> NoScalar]

Init ==
    /\ heap = [i \in ArrIds |-> FreeObj]
    /\ layer = [l \in LayerIds |-> NoLayer]
    /\ call = Idle

\* ------------------------------------------------- HiddenLayer.__init__

\* _resolve_activation_fct: the names that have a kernel pair (f, df).
ResolveActivationFctRaises(activation_function) ==
    ~(activation_function \in {"sigmoid", "tanh", "relu", "linear"})

\* self.f(activations)
ApplyF(activation_function, a) ==
    CASE activation_function = "sigmoid" -> sigmoid(a)
      [] activation_function = "tanh" -> tanh(a)
      [] activation_function = "relu" -> relu(a)
      [] activation_function = "linear" -> linear(a)

\* self.df(activations)
ApplyDf(activation_function, a) ==
    CASE activation_function = "sigmoid" -> df_sigmoid(a)
      [] activation_function = "tanh" -> df_tanh(a)
      [] activation_function = "relu" -> df_relu(a)
      [] activation_function = "linear" -> df_linear(a)

\* _set_weights_scale: Bengio's rule; err is set for any other name.
SetWeightsScale(activation_function, n_in, n_units) ==
    IF activation_function \in {"tanh", "relu", "linear"}
    THEN [err |-> "none", scale |-> [coef |-> One, fan |-> n_in + n_units]]
    ELSE IF activation_function = "sigmoid"
    THEN [err |-> "none", scale |-> [coef |-> Rat(4, 1), fan |-> n_in + n_units]]
    ELSE [err |-> "ValueError", scale |-> [coef |-> Zero, fan |-> 0]]

\* The dropout argument as the constructor stores it: a bool becomes 0.5 or
\* 0, anything else goes through float().
CoerceDropout(dropout) ==
    IF dropout.type = "bool"
    THEN (IF dropout.b THEN Rat(1, 2) ELSE Zero)
    ELSE dropout.x

\* The objects that `self.W, self.b = parameters` or the sampler leave the
\* layer with, and the heap holding them.  The assignment takes the two
\* items of parameters, whatever they are.
BindParameters(h, parameters, sampled, n_units) ==
    LET Wid == IF parameters.kind # "none" /\ parameters.Wid # ""
               THEN parameters.Wid ELSE NewId(h)
        h1 == IF parameters.kind # "none"
              THEN (IF parameters.Wid # "" THEN h
                    ELSE [h EXCEPT ![Wid] = parameters.W])
              ELSE [h EXCEPT ![Wid] = Gpu(sampled)]
        bid == IF parameters.kind # "none" /\ parameters.bid # ""
               THEN parameters.bid ELSE NewId(h1)
        h2 == IF parameters.kind # "none"
              THEN (IF parameters.bid # "" THEN h1
                    ELSE [h1 EXCEPT ![bid] = parameters.b])
              ELSE [h1 EXCEPT ![bid] = Gpu(Fill(<<n_units>>, 0))]
    IN  [W |-> Wid, b |-> bid, heap |-> h2]

\* sampled stands for weights_scale * (U - .5), U the sampler's fill of an
\* (n_in, n_units) array; it is NoArr when parameters are given.
SampledOk(sampling, sampled, n_in, n_units, scale) ==
    IF sampling
    THEN sampled.shape = <<n_in, n_units>> /\ InSamplerRange(sampled, scale)
    ELSE sampled = NoArr

\* Lines 124-125: a string is taken for a path; open() raises IOError when
\* it cannot open it, and cPickle.loads raises TypeError on the file object
\* that open() returns.  Lines 137-138: the two asserts read .shape, which a
\* str does not have.
HiddenInitErr(n_in, n_units, activation_function, dropout, parameters, bound) ==
    IF ResolveActivationFctRaises(activation_function) THEN "ValueError"
    ELSE IF parameters.kind = "str" /\ ~parameters.is_file THEN "IOError"
    ELSE IF parameters.kind = "str" THEN "TypeError"
    ELSE IF bound.heap[bound.W].dev = "str" THEN "AttributeError"
    ELSE IF bound.heap[bound.W].val.shape # <<n_in, n_units>> THEN "AssertionError"
    ELSE IF bound.heap[bound.b].dev = "str" THEN "AttributeError"
    ELSE IF bound.heap[bound.b].val.shape # <<n_units>> THEN "AssertionError"
    ELSE IF ~(RatLeq(Zero, CoerceDropout(dropout))
                /\ RatLess(CoerceDropout(dropout), One)) THEN "AssertionError"
    ELSE "none"

HiddenInit(l, n_in, n_units, activation_function, dropout, parameters, weights_scale, l1_penalty_weight, l2_penalty_weight, lr_multiplier, sampled) ==
    /\ call.op = "idle"
    /\ layer[l].cls = "none"
    /\ LET scale == IF weights_scale.given
                    THEN [coef |-> weights_scale.x, fan |-> 0]
                    ELSE SetWeightsScale(activation_function, n_in, n_units).scale
           bound == BindParameters(heap, parameters, sampled, n_units)
           err == HiddenInitErr(n_in, n_units, activation_function, dropout,
                                parameters, bound)
           new == [cls |-> "HiddenLayer", n_in |-> n_in, n_units |-> n_units,
                   W |-> bound.W, b |-> bound.b,
                   activation_function |-> activation_function,
                   dropout |-> CoerceDropout(dropout),
                   weights_scale |-> scale,
                   l1_penalty_weight |-> l1_penalty_weight,
                   l2_penalty_weight |-> l2_penalty_weight,
                   lr_multiplier |-> IF lr_multiplier.given
                                     THEN lr_multiplier.x
                                     ELSE <<InvSqrt(n_in), InvSqrt(n_in)>>,
                   test_error_fct |-> ""]
           lay == IF err = "none" THEN [layer EXCEPT ![l] = new] ELSE layer
       IN  /\ SampledOk(parameters.kind = "none"
                          /\ ~ResolveActivationFctRaises(activation_function),
                        sampled, n_in, n_units, scale)
           /\ layer' = lay
           /\ heap' = Collect(bound.heap, lay)
           /\ call' = [Idle EXCEPT !.op = "HiddenLayer.__init__", !.l = l,
                                   !.n_in = n_in, !.n_units = n_units,
                                   !.activation_function = activation_function,
                                   !.dropout = dropout,
                                   !.parameters = parameters,
                                   !.err = err]

\* ------------------------------------------------ SoftmaxLayer.__init__

\* Line 116: `self.W, self.b = parameters` has no test for a string; a
\* string of two characters is unpacked like a pair, and one of any other
\* length raises ValueError.  No shape is compared.
SoftmaxInitErr(parameters) ==
    IF parameters.kind = "str" /\ parameters.chars # 2 THEN "ValueError"
    ELSE "none"

SoftmaxInit(l, n_in, n_out, parameters, weights_scale, l1_penalty_weight, l2_penalty_weight, lr_multiplier, test_error_fct, sampled) ==
    /\ call.op = "idle"
    /\ layer[l].cls = "none"
    /\ LET scale == IF weights_scale.given
                    THEN [coef |-> weights_scale.x, fan |-> 0]
                    ELSE [coef |-> Rat(4, 1), fan |-> n_in + n_out]
           bound == BindParameters(heap, parameters, sampled, n_out)
           new == [cls |-> "SoftmaxLayer", n_in |-> n_in, n_units |-> n_out,
                   W |-> bound.W, b |-> bound.b,
                   activation_function |-> "",
                   dropout |-> Zero,
                   weights_scale |-> scale,
                   l1_penalty_weight |-> l1_penalty_weight,
                   l2_penalty_weight |-> l2_penalty_weight,
                   lr_multiplier |-> IF lr_multiplier.given
                                     THEN lr_multiplier.x
                                     ELSE <<InvSqrt(n_in), InvSqrt(n_in)>>,
                   test_error_fct |-> test_error_fct]
           err == SoftmaxInitErr(parameters)
           lay == IF err = "none" THEN [layer EXCEPT ![l] = new] ELSE layer
       IN  /\ SampledOk(parameters.kind = "none", sampled, n_in, n_out, scale)
           /\ layer' = lay
           /\ heap' = Collect(bound.heap, lay)
           /\ call' = [Idle EXCEPT !.op = "SoftmaxLayer.__init__", !.l = l,
                                   !.n_in = n_in, !.n_units = n_out,
                                   !.parameters = parameters,
                                   !.test_error_fct = test_error_fct,
                                   !.err = err]

\* ------------------------------------------ HiddenLayer.feed_forward

\* The arrays a cache (a tuple of array ids) holds.
CacheVals(h, ids) == [i \in 1..Len(ids) |-> Val(h, ids[i])]

\* What the sampler may draw: draw[1] shifts the pattern, draw[2] is the
\* number of kept entries out of every two.
Draws == {<<k, m>> : k \in {0, 1}, m \in {0, 1, 2}}

\* sample_dropout_mask: the mask of the shape that the draw gives (1 keeps a
\* unit, 0 drops it): all dropped, every second entry kept, all kept.
DropoutMask(shape, draw) ==
    Mk(shape,
       [i \in 1..Size(shape) |-> IF (i + draw[1]) % 2 < draw[2] THEN 1 ELSE 0],
       1)

Masks(shape) == {DropoutMask(shape, draw) : draw \in Draws}

\* A dropout step that applies the mask and returns the activations alone.
DropoutWithoutMask(h, lay, prediction, draw) ==
    IF RatPos(lay.dropout) /\ ~prediction
    THEN [err |-> "none",
          heap |-> Store(h, "activations",
                         MulArr(Val(h, "activations"),
                                DropoutMask(Val(h, "activations").shape, draw))),
          cache |-> <<"activations">>, mask_sampled |-> TRUE]
    ELSE [err |-> "none", heap |-> h, cache |-> <<"activations">>,
          mask_sampled |-> FALSE]

\* Lines 255-262: dropout.  sample_dropout_mask draws the mask and zeroes
\* the dropped activations in place.
HiddenDropout(h, lay, prediction, draw) ==
    IF RatPos(lay.dropout)
    THEN IF prediction
         THEN [err |-> "none",
               heap |-> Store(h, "activations",
                              Scale(RatSub(One, lay.dropout),
                                    Val(h, "activations"))),
               cache |-> <<"activations">>, mask_sampled |-> FALSE]
         ELSE [err |-> "none",
               heap |-> Put(Store(h, "activations",
                                  MulArr(Val(h, "activations"),
                                         DropoutMask(Val(h, "activations").shape,
                                                     draw))),
                            "dropout_mask",
                            DropoutMask(Val(h, "activations").shape, draw)),
               cache |-> <<"activations", "dropout_mask">>,
               mask_sampled |-> TRUE]
    ELSE [err |-> "none", heap |-> h, cache |-> <<"activations">>,
          mask_sampled |-> FALSE]

\* Line 253: self.f(activations), in place; then the dropout.
HiddenApplyF(h, lay, prediction, draw) ==
    HiddenDropout(Store(h, "activations",
                        ApplyF(lay.activation_function, Val(h, "activations"))),
                  lay, prediction, draw)

\* What feed_forward leaves when it raises: no cache.
FeedForwardFail(h, e) ==
    [err |-> e, heap |-> h, cache |-> <<>>, mask_sampled |-> FALSE]

\* Line 251: add_vec_to_mat(activations, self.b, inplace=True).  The kernels
\* take device arrays only.
HiddenAddBias(h, lay, prediction, draw) ==
    IF h[lay.b].dev # "gpu"
         \/ ~AddVecAligned(Val(h, "activations"), Val(h, lay.b))
    THEN FeedForwardFail(h, "KernelError")
    ELSE HiddenApplyF(Store(h, "activations",
                            add_vec_to_mat(Val(h, "activations"),
                                           Val(h, lay.b))),
                      lay, prediction, draw)

\* feed_forward(input_data, prediction), input_data being heap["input_data"].
\* Lines 245-250: the shape check and activations = input_data . W.
HiddenFeedForward(h, lay, prediction, draw) ==
    IF Val(h, "input_data").shape[2] # Val(h, lay.W).shape[1]
    THEN FeedForwardFail(h, "ValueError")
    ELSE IF h[lay.W].dev # "gpu"
    THEN FeedForwardFail(h, "KernelError")
    ELSE HiddenAddBias(Put(h, "activations",
                           dot(Val(h, "input_data"), Val(h, lay.W), "N", "N")),
                       lay, prediction, draw)

\* The caller's array arguments as the call left them.
ArgsAfter(h, cache_ids) ==
    [input_data |-> Val(h, "input_data"),
     df_output |-> Val(h, "df_output"),
     targets |-> Val(h, "targets"),
     cache |-> CacheVals(h, cache_ids)]

HiddenFeedForwardCall(l, input_data, prediction, draw) ==
    /\ call.op = "idle"
    /\ layer[l].cls = "HiddenLayer"
    /\ \E r \in {HiddenFeedForward(Put(heap, "input_data", input_data),
                                   layer[l], prediction, draw)} :
         /\ call' = [Idle EXCEPT !.op = "HiddenLayer.feed_forward", !.l = l,
                                 !.input_data = input_data,
                                 !.prediction = prediction,
                                 !.err = r.err,
                                 !.ret_cache = CacheVals(r.heap, r.cache),
                                 !.mask_sampled = r.mask_sampled,
                                 !.after = ArgsAfter(r.heap, <<>>)]
         /\ heap' = Collect(r.heap, layer)
         /\ UNCHANGED layer

\* --------------------------------------- HiddenLayer.update_parameters

n_parameters == 2

\* An update kernel that subtracts: param = 1 * param - mult * gparam.
AxpbyzNegated(h, param, gparam, mult) ==
    IF h[param].dev # "gpu"
    THEN [err |-> "AttributeError", heap |-> h]
    ELSE IF gparam.shape # Val(h, param).shape
    THEN [err |-> "KernelError", heap |-> h]
    ELSE [err |-> "none",
          heap |-> Store(h, param,
                         SubArr(Scale(One, Val(h, param)), Scale(mult, gparam)))]

\* param._axpbyz(1., gparam, mult, param): param = 1 * param + mult * gparam,
\* written into param.  A host array (numpy) has no _axpbyz; the kernel
\* takes arrays of one shape.
Axpbyz(h, param, gparam, mult) ==
    IF h[param].dev # "gpu"
    THEN [err |-> "AttributeError", heap |-> h]
    ELSE IF gparam.shape # Val(h, param).shape
    THEN [err |-> "KernelError", heap |-> h]
    ELSE [err |-> "none",
          heap |-> Store(h, param,
                         AddArr(Scale(One, Val(h, param)), Scale(mult, gparam)))]

\* The loop over izip((self.W, self.b), values), from its i-th round on.
RECURSIVE UpdateLoop(_, _, _, _)
UpdateLoop(h, params, values, i) ==
    IF i > Len(params) \/ i > Len(values)
    THEN [err |-> "none", heap |-> h]
    ELSE LET r == Axpbyz(h, params[i], values[i].gparam, values[i].mult)
         IN  IF r.err # "none" THEN r
             ELSE UpdateLoop(r.heap, params, values, i + 1)

\* An update that goes into the loop without comparing the lengths: izip
\* stops at the shorter of its two arguments.
UpdateUnchecked(h, lay, values) ==
    UpdateLoop(h, <<lay.W, lay.b>>, values, 1)

UpdateParameters(h, lay, values) ==
    IF Len(values) # n_parameters
    THEN [err |-> "AssertionError", heap |-> h]
    ELSE UpdateLoop(h, <<lay.W, lay.b>>, values, 1)

\* No numerator of the array exceeds the model's bound on parameters.
WithinParamBound(a) ==
    \A i \in 1..Len(a.data) : Abs(a.data[i]) <= MaxParam

UpdateParametersCall(l, values) ==
    /\ call.op = "idle"
    /\ layer[l].cls = "HiddenLayer"
    /\ LET r == UpdateParameters(heap, layer[l], values)
       IN  /\ WithinParamBound(Val(r.heap, layer[l].W))
           /\ WithinParamBound(Val(r.heap, layer[l].b))
           /\ call' = [Idle EXCEPT !.op = "HiddenLayer.update_parameters",
                                   !.l = l, !.values = values, !.err = r.err]
           /\ heap' = Collect(r.heap, layer)
           /\ UNCHANGED layer

\* ------------------------------------------- HiddenLayer.parameters (set)

\* isinstance(x, GPUArray)
IsGPUArray(obj) == obj.dev = "gpu"

\* gpuarray.to_gpu(x): a new device array holding x.  For an x that is a
\* device array already the outcome is the library's: releases that copy
\* from a buffer raise TypeError, later ones copy device to device
\* (copies_device says which).  It reads the shape of x, which a str does
\* not have.
ToGpu(obj, copies_device) ==
    IF obj.dev = "str"
    THEN [err |-> "AttributeError", obj |-> FreeObj]
    ELSE IF obj.dev = "host" \/ copies_device
    THEN [err |-> "none", obj |-> Gpu(obj.val)]
    ELSE [err |-> "TypeError", obj |-> FreeObj]

\* self.W = ...; self.b = ...: each attribute is bound as soon as its right
\* side is evaluated.  value[i] is the caller's array, held by reference
\* when it is stored as it is.
SetParameters(h, lay, value, copies_device) ==
    LET Wobj == IF IsGPUArray(value[1]) THEN [err |-> "none", obj |-> value[1]]
                ELSE ToGpu(value[1], copies_device)
        bobj == IF IsGPUArray(value[1]) THEN [err |-> "none", obj |-> value[2]]
                ELSE ToGpu(value[2], copies_device)
    IN  IF Wobj.err # "none"
        THEN [err |-> Wobj.err, heap |-> h, layer |-> lay]
        ELSE LET Wid == NewId(h)
                 h1 == [h EXCEPT ![Wid] = Wobj.obj]
                 lay1 == [lay EXCEPT !.W = Wid]
             IN  IF bobj.err # "none"
                 THEN [err |-> bobj.err, heap |-> h1, layer |-> lay1]
                 ELSE LET bid == NewId(h1)
                      IN  [err |-> "none",
                           heap |-> [h1 EXCEPT ![bid] = bobj.obj],
                           layer |-> [lay1 EXCEPT !.b = bid]]

SetParametersCall(l, value, copies_device) ==
    /\ call.op = "idle"
    /\ layer[l].cls = "HiddenLayer"
    /\ LET r == SetParameters(heap, layer[l], value, copies_device)
           lay == [layer EXCEPT ![l] = r.layer]
       IN  /\ call' = [Idle EXCEPT !.op = "HiddenLayer.parameters.setter",
                                   !.l = l, !.err = r.err,
                                   !.set_value = value]
           /\ layer' = lay
           /\ heap' = Collect(r.heap, lay)

\* The setter given arrays that a layer already holds (ids Wid and bid), as
\* in `layer.parameters = other.parameters`: with a device array value[0]
\* both are stored as they are, by reference; else both go through to_gpu.
SetParametersHeld(h, lay, Wid, bid, copies_device) ==
    IF IsGPUArray(h[Wid])
    THEN [err |-> "none", heap |-> h, layer |-> [lay EXCEPT !.W = Wid, !.b = bid]]
    ELSE SetParameters(h, lay, <<h[Wid], h[bid]>>, copies_device)

SetParametersHeldCall(l, Wid, bid, copies_device) ==
    /\ call.op = "idle"
    /\ layer[l].cls = "HiddenLayer"
    /\ \E r \in {SetParametersHeld(heap, layer[l], Wid, bid, copies_device)} :
         /\ call' = [Idle EXCEPT !.op = "HiddenLayer.parameters.setter",
                                 !.l = l, !.err = r.err,
                                 !.set_value = <<heap[Wid], heap[bid]>>]
         /\ layer' = [layer EXCEPT ![l] = r.layer]
         /\ heap' = Collect(r.heap, [layer EXCEPT ![l] = r.layer])

\* ------------------------------------ HiddenLayer.l1_penalty, l2_penalty

\* l1_penalty_weight * sum(|W|); abs() of a str is a TypeError.
L1Penalty(h, lay) ==
    IF h[lay.W].dev = "str" THEN [err |-> "TypeError", scalar |-> NoScalar]
    ELSE IF h[lay.W].dev # "gpu" THEN [err |-> "KernelError", scalar |-> NoScalar]
    ELSE [err |-> "none",
          scalar |-> Exact(RatMul(lay.l1_penalty_weight,
                                  SumArr(AbsArr(Val(h, lay.W)))))]

\* l2_penalty_weight * .5 * sum(W ** 2); a str has no power.
L2Penalty(h, lay) ==
    IF h[lay.W].dev = "str" THEN [err |-> "TypeError", scalar |-> NoScalar]
    ELSE IF h[lay.W].dev # "gpu" THEN [err |-> "KernelError", scalar |-> NoScalar]
    ELSE [err |-> "none",
          scalar |-> Exact(RatMul(RatMul(lay.l2_penalty_weight, Rat(1, 2)),
                                  SumArr(MulArr(Val(h, lay.W), Val(h, lay.W)))))]

PenaltyCall(l, which) ==
    /\ call.op = "idle"
    /\ layer[l].cls = "HiddenLayer"
    /\ LET r == IF which = "l1_penalty" THEN L1Penalty(heap, layer[l])
                ELSE L2Penalty(heap, layer[l])
       IN  /\ call' = [Idle EXCEPT !.op = which, !.l = l, !.err = r.err,
                                   !.scalar = r.scalar]
           /\ heap' = Collect(heap, layer)
           /\ UNCHANGED layer

\* ------------------------------------------------ HiddenLayer.backprop

\* What backprop returns or raises: the gradients, with the delta they are
\* computed from.  mask_sampled tells whether the feed_forward that backprop
\* ran drew a dropout mask, which it has done by the time anything after it
\* raises.
BackpropFail(h, e, mask_sampled) ==
    [err |-> e, heap |-> h, delta |-> NoArr, df_W |-> NoArr, df_b |-> NoArr,
     df_input |-> NoArr, mask_sampled |-> mask_sampled]

\* Gradients whose L2 term is written into W, not into df_W.
GradientsDecayingW(h, lay, delta, mask_sampled) ==
    IF ~DotAligned(Val(h, "input_data"), delta, "T", "N")
          \/ h[lay.W].dev # "gpu" \/ ~DotAligned(delta, Val(h, lay.W), "N", "T")
    THEN BackpropFail(h, "KernelError", mask_sampled)
    ELSE [err |-> "none",
          heap |-> Store(Put(h, "df_W",
                             dot(Val(h, "input_data"), delta, "T", "N")),
                         lay.W,
                         AddArr(Val(h, lay.W),
                                Scale(lay.l2_penalty_weight, Val(h, lay.W)))),
          delta |-> delta,
          df_W |-> dot(Val(h, "input_data"), delta, "T", "N"),
          df_b |-> matrix_sum_out_axis(delta),
          df_input |-> dot(delta, Val(h, lay.W), "N", "T"),
          mask_sampled |-> mask_sampled]

\* Gradients whose L2 term is added to df_b as well (l2_penalty_weight * b).
GradientsDecayingBias(h, lay, delta, mask_sampled) ==
    IF ~DotAligned(Val(h, "input_data"), delta, "T", "N")
          \/ h[lay.W].dev # "gpu" \/ ~DotAligned(delta, Val(h, lay.W), "N", "T")
          \/ Val(h, lay.b).shape # <<Cols(delta)>>
          \/ Val(h, lay.W).shape # <<Cols(Val(h, "input_data")), Cols(delta)>>
    THEN BackpropFail(h, "KernelError", mask_sampled)
    ELSE [err |-> "none",
          heap |-> h,
          delta |-> delta,
          df_W |-> AddArr(AddArr(dot(Val(h, "input_data"), delta, "T", "N"),
                                 Scale(lay.l1_penalty_weight,
                                       SignArr(Val(h, lay.W)))),
                          Scale(lay.l2_penalty_weight, Val(h, lay.W))),
          df_b |-> AddArr(matrix_sum_out_axis(delta),
                          Scale(lay.l2_penalty_weight, Val(h, lay.b))),
          df_input |-> dot(delta, Val(h, lay.W), "N", "T"),
          mask_sampled |-> mask_sampled]

\* `return (df_W, df_b), df_input`, df_W being heap["df_W"].
ReturnGradients(h, delta, df_b, df_input, mask_sampled) ==
    [err |-> "none", heap |-> h, delta |-> delta, df_W |-> Val(h, "df_W"),
     df_b |-> df_b, df_input |-> df_input, mask_sampled |-> mask_sampled]

\* `if self.l2_penalty_weight: df_W += self.l2_penalty_weight * self.W`
L2Decay(h, lay, delta, df_b, df_input, mask_sampled) ==
    IF RatIsZero(lay.l2_penalty_weight)
    THEN ReturnGradients(h, delta, df_b, df_input, mask_sampled)
    ELSE IF Val(h, "df_W").shape # Val(h, lay.W).shape
    THEN BackpropFail(h, "KernelError", mask_sampled)
    ELSE ReturnGradients(Store(h, "df_W",
                         AddArr(Val(h, "df_W"),
                                Scale(lay.l2_penalty_weight, Val(h, lay.W)))),
                   delta, df_b, df_input, mask_sampled)

\* `if self.l1_penalty_weight: df_W += self.l1_penalty_weight * sign(self.W)`
L1Decay(h, lay, delta, df_b, df_input, mask_sampled) ==
    IF RatIsZero(lay.l1_penalty_weight)
    THEN L2Decay(h, lay, delta, df_b, df_input, mask_sampled)
    ELSE IF Val(h, "df_W").shape # Val(h, lay.W).shape
    THEN BackpropFail(h, "KernelError", mask_sampled)
    ELSE L2Decay(Store(h, "df_W",
                       AddArr(Val(h, "df_W"),
                              Scale(lay.l1_penalty_weight,
                                    SignArr(Val(h, lay.W))))),
                 lay, delta, df_b, df_input, mask_sampled)

\* Lines 308-323: df_W = input_data^T . delta, df_b = the column sums of
\* delta, df_input = delta . W^T, and the two weight decay terms.
HiddenGradients(h, lay, delta, mask_sampled) ==
    IF ~DotAligned(Val(h, "input_data"), delta, "T", "N")
    THEN BackpropFail(h, "KernelError", mask_sampled)
    ELSE IF h[lay.W].dev # "gpu" \/ ~DotAligned(delta, Val(h, lay.W), "N", "T")
    THEN BackpropFail(Put(h, "df_W", dot(Val(h, "input_data"), delta, "T", "N")),
                      "KernelError", mask_sampled)
    ELSE L1Decay(Put(h, "df_W", dot(Val(h, "input_data"), delta, "T", "N")),
                 lay, delta, matrix_sum_out_axis(delta),
                 dot(delta, Val(h, lay.W), "N", "T"), mask_sampled)

\* Lines 304-306: delta = df(activations) * df_output.
HiddenDeltaOf(h, lay, activations, mask_sampled) ==
    IF activations.shape # Val(h, "df_output").shape
    THEN BackpropFail(h, "KernelError", mask_sampled)
    ELSE HiddenGradients(h, lay,
                         MulArr(ApplyDf(lay.activation_function, activations),
                                Val(h, "df_output")),
                         mask_sampled)

\* Lines 295-302, cache being a tuple of array ids: dropout_mask is bound
\* only by a cache of length 2; the mask is applied to df_output in place.
HiddenDelta(h, lay, cache, mask_sampled) ==
    IF ~RatPos(lay.dropout)
    THEN HiddenDeltaOf(h, lay, Val(h, cache[1]), mask_sampled)
    ELSE IF Len(cache) # 2
    THEN BackpropFail(h, "UnboundLocalError", mask_sampled)
    ELSE IF Val(h, cache[2]).shape # Val(h, "df_output").shape
    THEN BackpropFail(h, "KernelError", mask_sampled)
    ELSE HiddenDeltaOf(Store(h, "df_output",
                             MulArr(Val(h, "df_output"), Val(h, cache[2]))),
                       lay, Val(h, cache[1]), mask_sampled)

\* Lines 291-293: the cache that feed_forward returned, r being its outcome.
HiddenDeltaAfter(r, lay) ==
    IF r.err # "none" THEN BackpropFail(r.heap, r.err, r.mask_sampled)
    ELSE HiddenDelta(r.heap, lay, r.cache, r.mask_sampled)

\* backprop(input_data, df_output, cache): cache is <<>> for None, else the
\* ids of the caller's cache arrays.
HiddenBackprop(h, lay, cache, draw) ==
    IF cache = <<>>
    THEN HiddenDeltaAfter(HiddenFeedForward(h, lay, FALSE, draw), lay)
    ELSE HiddenDelta(h, lay, cache, FALSE)

\* The caller's cache arrays on the heap, and their ids.
PutCache(h, cache) ==
    IF Len(cache) = 0 THEN h
    ELSE IF Len(cache) = 1 THEN Put(h, "cache0", cache[1])
    ELSE Put(Put(h, "cache0", cache[1]), "cache1", cache[2])

CacheIds(cache) ==
    IF Len(cache) = 0 THEN <<>>
    ELSE IF Len(cache) = 1 THEN <<"cache0">>
    ELSE <<"cache0", "cache1">>

HiddenBackpropCall(l, input_data, df_output, cache, draw) ==
    /\ call.op = "idle"
    /\ layer[l].cls = "HiddenLayer"
    /\ \E r \in {HiddenBackprop(PutCache(Put(Put(heap, "input_data", input_data),
                                             "df_output", df_output), cache),
                                layer[l], CacheIds(cache), draw)} :
         /\ call' = [Idle EXCEPT !.op = "HiddenLayer.backprop", !.l = l,
                                 !.input_data = input_data,
                                 !.df_output = df_output,
                                 !.cache_given = (cache # <<>>),
                                 !.cache = cache,
                                 !.err = r.err,
                                 !.mask_sampled = r.mask_sampled,
                                 !.delta = r.delta, !.df_W = r.df_W,
                                 !.df_b = r.df_b, !.df_input = r.df_input,
                                 !.after = ArgsAfter(r.heap, CacheIds(cache))]
         /\ heap' = Collect(r.heap, layer)
         /\ UNCHANGED layer

\* ------------------------------------------ SoftmaxLayer.feed_forward

\* What SoftmaxLayer.feed_forward returns or raises; the result is the array
\* heap["activations"].
FedForward(h, e) == [err |-> e, heap |-> h, activations |-> "activations"]

\* Lines 166-168: add_vec_to_mat(lin_activations, self.b, inplace=True) and
\* activations = softmax(lin_activations).
SoftmaxAddBias(h, lay) ==
    IF h[lay.b].dev # "gpu"
         \/ ~AddVecAligned(Val(h, "lin_activations"), Val(h, lay.b))
    THEN FedForward(h, "KernelError")
    ELSE FedForward(
           Put(Store(h, "lin_activations",
                     add_vec_to_mat(Val(h, "lin_activations"), Val(h, lay.b))),
               "activations",
               softmax(add_vec_to_mat(Val(h, "lin_activations"),
                                      Val(h, lay.b)))),
           "none")

\* feed_forward(input_data, prediction): softmax(input_data . W + b);
\* prediction is not read.  Lines 161-165: the shape check and the product;
\* a str has no attribute shape.
SoftmaxFeedForward(h, lay) ==
    IF h[lay.W].dev = "str"
    THEN FedForward(h, "AttributeError")
    ELSE IF Val(h, "input_data").shape[2] # Val(h, lay.W).shape[1]
    THEN FedForward(h, "ValueError")
    ELSE IF h[lay.W].dev # "gpu"
    THEN FedForward(h, "KernelError")
    ELSE SoftmaxAddBias(Put(h, "lin_activations",
                            dot(Val(h, "input_data"), Val(h, lay.W), "N", "N")),
                        lay)

SoftmaxFeedForwardCall(l, input_data, prediction) ==
    /\ call.op = "idle"
    /\ layer[l].cls = "SoftmaxLayer"
    /\ \E r \in {SoftmaxFeedForward(Put(heap, "input_data", input_data),
                                    layer[l])} :
         /\ call' = [Idle EXCEPT !.op = "SoftmaxLayer.feed_forward", !.l = l,
                                 !.input_data = input_data,
                                 !.prediction = prediction,
                                 !.err = r.err,
                                 !.ret = IF r.err = "none"
                                         THEN Val(r.heap, "activations")
                                         ELSE NoArr,
                                 !.after = ArgsAfter(r.heap, <<>>)]
         /\ heap' = Collect(r.heap, layer)
         /\ UNCHANGED layer

\* `activations = cache` or `activations = self.feed_forward(...)`: the id
\* of the activations, cache being <<>> for None.
SoftmaxActivations(h, lay, cache) ==
    IF cache # <<>>
    THEN [err |-> "none", heap |-> h, activations |-> cache[1]]
    ELSE SoftmaxFeedForward(h, lay)

\* ------------------------------------------------ SoftmaxLayer.backprop

\* Lines 210-226: the gradients from delta = heap["delta"], as in
\* HiddenLayer.backprop.
SoftmaxGradients(h, lay) ==
    HiddenGradients(h, lay, Val(h, "delta"), FALSE)

\* Lines 207-208: delta = activations - targets, cleaned of NaN in place.
SoftmaxDelta(a, lay) ==
    IF a.err # "none" THEN BackpropFail(a.heap, a.err, FALSE)
    ELSE IF Val(a.heap, a.activations).shape # Val(a.heap, "targets").shape
    THEN BackpropFail(a.heap, "ValueError", FALSE)
    ELSE SoftmaxGradients(
           Put(a.heap, "delta",
               nan_to_zeros(SubArr(Val(a.heap, a.activations),
                                   Val(a.heap, "targets")))),
           lay)

\* backprop(input_data, targets, cache)
SoftmaxBackprop(h, lay, cache) ==
    SoftmaxDelta(SoftmaxActivations(h, lay, cache), lay)

SoftmaxBackpropCall(l, input_data, targets, cache) ==
    /\ call.op = "idle"
    /\ layer[l].cls = "SoftmaxLayer"
    /\ \E r \in {SoftmaxBackprop(PutCache(Put(Put(heap, "input_data", input_data),
                                              "targets", targets), cache),
                                 layer[l], CacheIds(cache))} :
         /\ call' = [Idle EXCEPT !.op = "SoftmaxLayer.backprop", !.l = l,
                                 !.input_data = input_data,
                                 !.targets = targets,
                                 !.cache_given = (cache # <<>>),
                                 !.cache = cache,
                                 !.err = r.err,
                                 !.delta = r.delta, !.df_W = r.df_W,
                                 !.df_b = r.df_b, !.df_input = r.df_input,
                                 !.after = ArgsAfter(r.heap, CacheIds(cache))]
         /\ heap' = Collect(r.heap, layer)
         /\ UNCHANGED layer

\* ------------------------------------------- SoftmaxLayer error metrics

MetricFail(h, e, name, prediction) ==
    [err |-> e, heap |-> h, scalar |-> NoScalar, metric |-> name,
     metric_prediction |-> prediction]

\* factor * scalar
ScalarTimes(r, sc) == [sc EXCEPT !.factor = RatMul(r, @)]

\* The value a metric returns: over the batch size when average.
MetricValue(h, sc, average, name, prediction) ==
    [err |-> "none", heap |-> h,
     scalar |-> IF average
                THEN ScalarTimes(Rat(1, Val(h, "targets").shape[1]), sc)
                ELSE sc,
     metric |-> name, metric_prediction |-> prediction]

\* Lines 286-289: the cross_entropy kernel's reduction of the activations
\* that a holds.
CrossEntropyOf(a, average, prediction) ==
    IF a.err # "none"
    THEN MetricFail(a.heap, a.err, "cross_entropy_error", prediction)
    ELSE IF Val(a.heap, a.activations).shape # Val(a.heap, "targets").shape
    THEN MetricFail(a.heap, "KernelError", "cross_entropy_error", prediction)
    ELSE MetricValue(a.heap,
                     [kernel |-> "cross_entropy",
                      args |-> <<Val(a.heap, a.activations),
                                 Val(a.heap, "targets")>>,
                      factor |-> One],
                     average, "cross_entropy_error", prediction)

CrossEntropyError(h, lay, average, cache, prediction) ==
    CrossEntropyOf(SoftmaxActivations(h, lay, cache), average, prediction)

\* np.sum(predicted != targets) for two argmax vectors, the comparison being
\* numpy's on the host: elementwise for equal lengths, a vector of one entry
\* is broadcast, and for other lengths `!=` is the single value True.
Mismatches(predicted, targets) ==
    IF Len(predicted) = Len(targets)
    THEN Cardinality({i \in 1..Len(targets) : predicted[i] # targets[i]})
    ELSE IF Len(predicted) = 1
    THEN Cardinality({i \in 1..Len(targets) : predicted[1] # targets[i]})
    ELSE IF Len(targets) = 1
    THEN Cardinality({i \in 1..Len(predicted) : predicted[i] # targets[1]})
    ELSE 1

\* Lines 304-308: the number of rows whose argmax differs from the targets'
\* argmax.
ClassErrorOf(a, average, prediction) ==
    IF a.err # "none"
    THEN MetricFail(a.heap, a.err, "class_error", prediction)
    ELSE MetricValue(a.heap,
                     Exact(Rat(Mismatches(
                                 argmax1(Val(a.heap, a.activations)),
                                 argmax1(Val(a.heap, "targets"))), 1)),
                     average, "class_error", prediction)

ClassError(h, lay, average, cache, prediction) ==
    ClassErrorOf(SoftmaxActivations(h, lay, cache), average, prediction)

\* Lines 321-328: sum(t * (log(t + eps) - log(activations + eps))), t the
\* targets cleaned of NaN into a new array.
KlDivergence(h, activations, average, prediction) ==
    IF Val(h, activations).shape # Val(h, "targets").shape
    THEN MetricFail(h, "KernelError", "kl_error", prediction)
    ELSE MetricValue(h,
                     [kernel |-> "kl_divergence",
                      args |-> <<Val(h, "targets_non_nan"),
                                 Val(h, activations)>>,
                      factor |-> One],
                     average, "kl_error", prediction)

KlErrorOf(a, average, prediction) ==
    IF a.err # "none"
    THEN MetricFail(a.heap, a.err, "kl_error", prediction)
    ELSE KlDivergence(Put(a.heap, "targets_non_nan",
                          nan_to_zeros(Val(a.heap, "targets"))),
                      a.activations, average, prediction)

KlError(h, lay, average, cache, prediction) ==
    KlErrorOf(SoftmaxActivations(h, lay, cache), average, prediction)

\* A dispatch that falls back to class_error for a name it does not know.
TestErrorDefaulting(h, lay, average, cache, prediction) ==
    IF lay.test_error_fct = "kl_error"
    THEN KlError(h, lay, average, cache, prediction)
    ELSE IF lay.test_error_fct = "cross_entropy_error"
    THEN CrossEntropyError(h, lay, average, cache, prediction)
    ELSE ClassError(h, lay, average, cache, prediction)

\* test_error looks test_error_fct up when it is called.
TestError(h, lay, average, cache, prediction) ==
    IF lay.test_error_fct = "class_error"
    THEN ClassError(h, lay, average, cache, prediction)
    ELSE IF lay.test_error_fct = "kl_error"
    THEN KlError(h, lay, average, cache, prediction)
    ELSE IF lay.test_error_fct = "cross_entropy_error"
    THEN CrossEntropyError(h, lay, average, cache, prediction)
    ELSE MetricFail(h, "ValueError", "none", prediction)

\* The default of the prediction argument of each method.
DefaultPrediction(method) ==
    CASE method = "test_error" -> TRUE
      [] method = "cross_entropy_error" -> FALSE
      [] method = "class_error" -> FALSE
      [] method = "kl_error" -> TRUE

\* The default of the average argument.
DefaultAverage == TRUE

Metric(method, h, lay, average, cache, prediction) ==
    CASE method = "test_error" -> TestError(h, lay, average, cache, prediction)
      [] method = "cross_entropy_error" ->
            CrossEntropyError(h, lay, average, cache, prediction)
      [] method = "class_error" -> ClassError(h, lay, average, cache, prediction)
      [] method = "kl_error" -> KlError(h, lay, average, cache, prediction)

\* method(input_data, targets, average, cache, prediction); average and
\* prediction are optional booleans.
MetricCall(l, method, input_data, targets, average, cache, prediction) ==
    /\ call.op = "idle"
    /\ layer[l].cls = "SoftmaxLayer"
    /\ \E avg \in {IF average.given THEN average.x ELSE DefaultAverage},
          pred \in {IF prediction.given THEN prediction.x
                    ELSE DefaultPrediction(method)} :
         \E r \in {Metric(method,
                          PutCache(Put(Put(heap, "input_data", input_data),
                                       "targets", targets), cache),
                          layer[l], avg, CacheIds(cache), pred)} :
           /\ call' = [Idle EXCEPT !.op = method, !.l = l,
                                   !.input_data = input_data,
                                   !.targets = targets,
                                   !.cache_given = (cache # <<>>),
                                   !.cache = cache,
                                   !.average_arg = average,
                                   !.prediction_arg = prediction,
                                   !.average = avg,
                                   !.prediction = pred,
                                   !.err = r.err,
                                   !.scalar = r.scalar,
                                   !.metric = r.metric,
                                   !.metric_prediction = r.metric_prediction,
                                   !.after = ArgsAfter(r.heap, CacheIds(cache))]
           /\ heap' = Collect(r.heap, layer)
           /\ UNCHANGED layer

\* layer.test_error_fct = name: a plain attribute (softmax_layer.py:128).
AssignTestErrorFct(l, name) ==
    /\ call.op = "idle"
    /\ layer[l].cls = "SoftmaxLayer"
    /\ layer' = [layer EXCEPT ![l].test_error_fct = name]
    /\ call' = [Idle EXCEPT !.op = "SoftmaxLayer.test_error_fct.setter",
                            !.l = l, !.test_error_fct = name]
    /\ UNCHANGED heap

\* The caller lets go of the result of the last call (caches, masks and
\* gradients live for one step only) and is ready for the next call.
Release ==
    /\ call.op # "idle"
    /\ call' = Idle
    /\ UNCHANGED <<heap, layer>>

\* ------------------------------------------------------- specification
\* The bounded sets that the arguments of the calls are drawn from.

\* The arrays of the shape: a ramp from every base, flat or rising.
Arrays(shape) == {Ramp(shape, base, step) : base \in Vals, step \in Steps}

\* One array of every matrix shape.
Shaped(base) == {Ramp(<<r, c>>, base, 1) : r \in Dims, c \in Dims}

\* The layer objects that the specifications below construct and call.
Active == {1}

\* The draws of U for which weights_scale * (U - .5) is an array of the model.
Samples(sampling, n_in, n_units, scale) ==
    IF sampling
    THEN {a \in Arrays(<<n_in, n_units>>) : InSamplerRange(a, scale)}
    ELSE {NoArr}

HiddenScale(activation_function, n_in, n_units, weights_scale) ==
    IF weights_scale.given THEN [coef |-> weights_scale.x, fan |-> 0]
    ELSE SetWeightsScale(activation_function, n_in, n_units).scale

DropoutArgs ==
    {PyBool(TRUE), PyBool(FALSE), PyFloat(Zero), PyFloat(Rat(1, 2)),
     PyFloat(One), PyFloat(Rat(-1, 2)), PyFloat(Rat(3, 2))}

\* Strings of up to MaxChars characters, naming a file or not.
StringArgs ==
    {StringParameters(chars, is_file) :
        chars \in 1..MaxChars, is_file \in BOOLEAN}

\* Pairs that hold a str: two str objects, and a device array with a str.
StrPairArgs ==
    {PairParameters(StrObj, StrObj)}
        \cup {PairParameters(Gpu(Ramp(<<r, c>>, -1, 1)), StrObj) :
                 r \in Dims, c \in Dims}

\* Pairs of device arrays of every shape.
PairArgs ==
    {PairParameters(Gpu(Ramp(<<r, c>>, -1, 1)), Gpu(Ramp(<<n>>, 0, 1))) :
        r \in Dims, c \in Dims, n \in Dims}

\* HiddenLayer(n_in, n_units, ...) with sampled parameters.
ConstructHiddenSampled(l, Activations, Dropouts, Penalties) ==
    /\ call.op = "idle" /\ layer[l].cls = "none"
    /\ \E n_in \in Dims, n_units \in Dims, activation_function \in Activations,
       dropout \in Dropouts, pw \in Penalties :
      \E sampled \in Samples(~ResolveActivationFctRaises(activation_function),
                             n_in, n_units,
                             HiddenScale(activation_function, n_in, n_units,
                                         None)) :
        HiddenInit(l, n_in, n_units, activation_function, dropout,
                   NoParameters, None, pw, pw, None, sampled)

\* HiddenLayer(n_in, n_units, ..., parameters = ...)
ConstructHiddenGiven(l, Configs, Parameters, Scales) ==
    /\ call.op = "idle" /\ layer[l].cls = "none"
    /\ \E n_in \in Dims, n_units \in Dims, c \in Configs,
       parameters \in Parameters, weights_scale \in Scales :
        HiddenInit(l, n_in, n_units, c.activation_function, c.dropout,
                   parameters, weights_scale, c.l1, c.l2, None, NoArr)

\* SoftmaxLayer(n_in, n_out, ...)
ConstructSoftmax(l, Configs, Parameters) ==
    /\ call.op = "idle" /\ layer[l].cls = "none"
    /\ \E n_in \in Dims, n_out \in Dims, c \in Configs,
       parameters \in Parameters :
      \E sampled \in Samples(parameters.kind = "none", n_in, n_out,
                             [coef |-> Rat(4, 1), fan |-> n_in + n_out]) :
        SoftmaxInit(l, n_in, n_out, parameters, None, c.l1, c.l2, None,
                    c.test_error_fct, sampled)

\* The draws that matter to feed_forward(input_data, prediction): all of
\* them when the call samples a mask, else one.
DrawsFor(l, prediction) ==
    IF RatPos(layer[l].dropout) /\ ~prediction THEN Draws ELSE {<<0, 0>>}

FeedForwardHidden(l, Inputs) ==
    /\ call.op = "idle" /\ layer[l].cls = "HiddenLayer"
    /\ \E input_data \in Inputs, prediction \in BOOLEAN :
         \E draw \in DrawsFor(l, prediction) :
           HiddenFeedForwardCall(l, input_data, prediction, draw)

FeedForwardSoftmax(l, Inputs) ==
    /\ call.op = "idle" /\ layer[l].cls = "SoftmaxLayer"
    /\ \E input_data \in Inputs, prediction \in BOOLEAN :
        SoftmaxFeedForwardCall(l, input_data, prediction)

\* The residency of w and of b, and whether to_gpu copies a device array.
Residencies ==
    {<<wd, bd, copies_device>> :
        wd \in {"gpu", "host"}, bd \in {"gpu", "host"},
        copies_device \in BOOLEAN}

\* The cases in which to_gpu is given a device array, and the others once.
AllResidencies ==
    {r \in Residencies : (r[1] = "host" /\ r[2] = "gpu") \/ r[3]}

\* layer.parameters = (w, b): w with a number of rows out of RowCounts, w
\* and b residing as one of Residency says.
SetParametersOf(l, RowCounts, Residency) ==
    /\ call.op = "idle" /\ layer[l].cls = "HiddenLayer"
    /\ \E r \in RowCounts, res \in Residency :
         SetParametersCall(l,
            <<[val |-> Ramp(<<r, layer[l].n_units>>, 1, 1), dev |-> res[1]],
              [val |-> Ramp(<<layer[l].n_units>>, -1, 1), dev |-> res[2]]>>,
            res[3])

Next ==
    \/ \E l \in Active :
         ConstructHiddenSampled(l, ActivationNames \cup {"softplus"},
                                DropoutArgs, {Zero})
    \/ \E l \in Active :
         ConstructHiddenGiven(l,
            {[activation_function |-> a, dropout |-> d, l1 |-> Zero, l2 |-> Zero] :
               a \in {"relu", "softplus"},
               d \in {PyFloat(Zero), PyFloat(Rat(3, 2))}},
            PairArgs \cup StringArgs \cup StrPairArgs,
            {None, Some(Rat(4, 1))})
    \/ \E l \in Active :
         ConstructSoftmax(l,
            {[l1 |-> Zero, l2 |-> Zero, test_error_fct |-> "class_error"]},
            PairArgs \cup {NoParameters} \cup StringArgs)
    \/ \E l \in Active : FeedForwardHidden(l, Shaped(-1))
    \/ \E l \in Active : FeedForwardSoftmax(l, Shaped(-1))
    \/ \E l \in Active : SetParametersOf(l, Dims, AllResidencies)
    \/ Release

Spec == Init /\ [][Next]_vars

\* ------------------------------------------- construction and feed_forward

\* The layer that the last call was made on.
Called == layer[call.l]

Returned(op) == call.op = op /\ call.err = "none"

\* An array of zeros and ones.
IsMask(a) == a.den = 1 /\ \A i \in 1..Len(a.data) : a.data[i] \in {0, 1}

\* C1: a HiddenLayer.feed_forward that returns, returns the cache
\* (activations, dropout_mask) of two arrays of one shape, having sampled the
\* mask, exactly when dropout > 0 and prediction is False; in every other
\* case it returns the one-element cache (activations,) and samples no mask.
C1_CacheLength ==
    Returned("HiddenLayer.feed_forward") =>
        IF RatPos(Called.dropout) /\ ~call.prediction
        THEN /\ Len(call.ret_cache) = 2
             /\ call.mask_sampled
             /\ IsMask(call.ret_cache[2])
             /\ call.ret_cache[2].shape = call.ret_cache[1].shape
        ELSE /\ Len(call.ret_cache) = 1
             /\ ~call.mask_sampled

\* A training-mode call on a layer with dropout returned two arrays, the
\* mask dropping some unit and keeping another.
C1_Witness ==
    /\ Returned("HiddenLayer.feed_forward")
    /\ RatPos(Called.dropout)
    /\ ~call.prediction
    /\ Len(call.ret_cache) = 2
    /\ \E i, j \in 1..Len(call.ret_cache[2].data) :
          call.ret_cache[2].data[i] = 0 /\ call.ret_cache[2].data[j] = 1

\* ------------------------------------------------------ update_parameters

\* The gradients passed for a parameter: zero, or rising from gradient base.
Gradients(shape) == {Fill(shape, 0), Ramp(shape, -1, 1)}

Multipliers == {Rat(-1, 1), Rat(1, 2)}

\* The (gradient, multiplier) pairs for a parameter of the shape.
Entries(shape, Mults) ==
    {[gparam |-> g, mult |-> m] : g \in Gradients(shape), m \in Mults}

\* values for update_parameters: a pair for W and a pair for b (whose
\* gradient may be one entry too long), or a list of another length.
ValueLists(l) ==
    LET ws == Entries(Wval(l).shape, Multipliers)
        bs == Entries(bval(l).shape, Multipliers)
        w1 == Entries(Wval(l).shape, {Rat(-1, 1)})
        b1 == Entries(bval(l).shape, {Rat(-1, 1)})
        long == [gparam |-> Fill(<<Len(bval(l).data) + 1>>, 1), mult |-> One]
    IN  {<<w, b>> : w \in ws, b \in bs \cup {long}}
            \cup {<<>>}
            \cup {<<w>> : w \in w1}
            \cup {<<w, b, b>> : w \in w1, b \in b1}

UpdateOf(l) ==
    /\ call.op = "idle" /\ layer[l].cls = "HiddenLayer"
    /\ \E values \in ValueLists(l) : UpdateParametersCall(l, values)

NextUpd ==
    \/ \E l \in Active :
         ConstructHiddenSampled(l, {"tanh"}, {PyFloat(Zero)}, {Zero})
    \/ \E l \in Active :
         ConstructHiddenGiven(l,
            {[activation_function |-> "relu", dropout |-> PyFloat(Zero),
              l1 |-> Zero, l2 |-> Zero]},
            PairArgs, {None})
    \/ \E l \in Active :
         SetParametersOf(l, {layer[l].n_in}, {<<"gpu", "host", TRUE>>})
    \/ \E l \in Active : UpdateOf(l)
    \/ Release

SpecUpd == Init /\ [][NextUpd]_vars

\* update_parameters is called on a layer that holds device arrays, with a
\* gradient of each parameter's shape.
WellFormedUpdate(l, values) ==
    /\ Len(values) = 2
    /\ Wdev(l) = "gpu" /\ bdev(l) = "gpu"
    /\ values[1].gparam.shape = Wval(l).shape
    /\ values[2].gparam.shape = bval(l).shape

\* C4: update_parameters([(gW, mW), (gb, mb)]) on a layer whose W and b are
\* device arrays of the gradients' shapes returns with W = W + mW * gW and
\* b = b + mb * gb; with both gradients zero W and b are as they were; and
\* whenever the call returns at all, W and b are those sums.
C4_Update ==
    [][\A l \in LayerIds :
         (call'.op = "HiddenLayer.update_parameters" /\ call'.l = l) =>
           LET values == call'.values
           IN  /\ WellFormedUpdate(l, values) => call'.err = "none"
               /\ call'.err = "none" =>
                     /\ Wval(l)' = AddArr(Wval(l), Scale(values[1].mult,
                                                         values[1].gparam))
                     /\ bval(l)' = AddArr(bval(l), Scale(values[2].mult,
                                                         values[2].gparam))
                     /\ (/\ values[1].gparam = Fill(Wval(l).shape, 0)
                         /\ values[2].gparam = Fill(bval(l).shape, 0))
                           => Wval(l)' = Wval(l) /\ bval(l)' = bval(l)]_vars

\* An update with two different multipliers and two nonzero gradients has
\* returned, leaving nonzero parameters.
C4_Witness ==
    /\ Returned("HiddenLayer.update_parameters")
    /\ call.values[1].mult # call.values[2].mult
    /\ call.values[1].gparam # Fill(Wval(call.l).shape, 0)
    /\ call.values[2].gparam # Fill(bval(call.l).shape, 0)
    /\ Wval(call.l) # Fill(Wval(call.l).shape, 0)
    /\ bval(call.l) # Fill(bval(call.l).shape, 0)
    /\ Len(Wval(call.l).data) > 1

\* C5: update_parameters(values) with len(values) other than 2 raises, and
\* W and b are the arrays they were, holding what they held.
C5_LengthChecked ==
    [][(/\ call'.op = "HiddenLayer.update_parameters"
        /\ Len(call'.values) # n_parameters) =>
          /\ call'.err = "AssertionError"
          /\ layer' = layer
          /\ heap'[layer[call'.l].W] = heap[layer[call'.l].W]
          /\ heap'[layer[call'.l].b] = heap[layer[call'.l].b]]_vars

\* A call with a single (gradient, multiplier) entry, the gradient nonzero
\* and of W's shape, has raised.
C5_Witness ==
    /\ call.op = "HiddenLayer.update_parameters"
    /\ Len(call.values) = 1
    /\ call.values[1].gparam.shape = Wval(call.l).shape
    /\ call.values[1].gparam # Fill(Wval(call.l).shape, 0)
    /\ Wdev(call.l) = "gpu"
    /\ call.err = "AssertionError"

\* C2: for both classes, feed_forward on input_data whose column count
\* differs from the layer's n_in raises ValueError and returns no cache, and
\* on input_data with n_in columns it does not raise ValueError.
C2_ColumnsAgainstNIn ==
    call.op \in {"HiddenLayer.feed_forward", "SoftmaxLayer.feed_forward"} =>
        IF Cols(call.input_data) # Called.n_in
        THEN /\ call.err = "ValueError"
             /\ call.ret_cache = <<>>
             /\ call.ret = NoArr
        ELSE call.err # "ValueError"

\* C3: for both classes, a constructor that returns, its parameters sampled
\* or given as a (W, b) pair, leaves a layer with W.shape = (n_in, n_units)
\* and b.shape = (n_units,), and a constructor given a (W, b) pair of any
\* other shape raises.
C3_ShapesEnforced ==
    call.op \in {"HiddenLayer.__init__", "SoftmaxLayer.__init__"} =>
        /\ (call.parameters.kind \in {"none", "pair"} /\ call.err = "none") =>
              /\ Wval(call.l).shape = <<call.n_in, call.n_units>>
              /\ bval(call.l).shape = <<call.n_units>>
        /\ (/\ call.parameters.kind = "pair"
            /\ \/ call.parameters.W.val.shape # <<call.n_in, call.n_units>>
               \/ call.parameters.b.val.shape # <<call.n_units>>)
              => call.err # "none"

\* C6: layer.parameters = (w, b) returns for each of w and b on the device or
\* on the host, and leaves W and b device arrays holding the values of w and
\* of b.
C6_BothOnDevice ==
    call.op = "HiddenLayer.parameters.setter" =>
        /\ call.err = "none"
        /\ Wdev(call.l) = "gpu"
        /\ bdev(call.l) = "gpu"
        /\ Wval(call.l) = call.set_value[1].val
        /\ bval(call.l) = call.set_value[2].val

\* The dropout argument lies in [0, 1) once a bool is coerced.
DropoutInRange(dropout) ==
    RatLeq(Zero, CoerceDropout(dropout)) /\ RatLess(CoerceDropout(dropout), One)

\* C9: HiddenLayer(...) raises ValueError for an activation_function outside
\* {sigmoid, tanh, relu, linear} and for a dropout outside [0, 1); a layer
\* that is constructed holds the dropout it was given (True as 0.5, False as
\* 0), which lies in [0, 1).
C9_ValueErrors ==
    call.op = "HiddenLayer.__init__" =>
        /\ ResolveActivationFctRaises(call.activation_function)
              => call.err = "ValueError"
        /\ ~DropoutInRange(call.dropout) => call.err = "ValueError"
        /\ call.err = "none" =>
              /\ Called.dropout = CoerceDropout(call.dropout)
              /\ RatLeq(Zero, Called.dropout)
              /\ RatLess(Called.dropout, One)

\* ------------------------------------- backprop, penalties, error metrics

\* Penalty weights: none, L1 alone, L2 alone, both.
PenaltyWeights ==
    {<<Zero, Zero>>, <<One, Zero>>, <<Zero, Rat(1, 2)>>, <<One, Rat(1, 2)>>}

\* HiddenLayer(n_in, n_units, ..., parameters = (W, b)) with W and b of the
\* shapes that n_in and n_units ask for.
ConstructHiddenShaped(l, Activations, Dropouts, Penalties) ==
    /\ call.op = "idle" /\ layer[l].cls = "none"
    /\ \E n_in \in Dims, n_units \in Dims, activation_function \in Activations,
          dropout \in Dropouts, pw \in Penalties :
         HiddenInit(l, n_in, n_units, activation_function, dropout,
                    PairParameters(Gpu(Ramp(<<n_in, n_units>>, -1, 1)),
                                   Gpu(Ramp(<<n_units>>, 0, 1))),
                    None, pw[1], pw[2], None, NoArr)

\* SoftmaxLayer(n_in, n_out, parameters = (W, b), ...) likewise.
ConstructSoftmaxShaped(l, Penalties, ErrorFcts) ==
    /\ call.op = "idle" /\ layer[l].cls = "none"
    /\ \E n_in \in Dims, n_out \in Dims, pw \in Penalties,
          test_error_fct \in ErrorFcts :
         SoftmaxInit(l, n_in, n_out,
                     PairParameters(Gpu(Ramp(<<n_in, n_out>>, -1, 1)),
                                    Gpu(Ramp(<<n_out>>, 0, 1))),
                     None, pw[1], pw[2], None, test_error_fct, NoArr)

\* An array of n_units columns for every row count, and one with a column
\* more.
Outputs(rows, n_units) ==
    {Ramp(<<rows, n_units>>, 1, 1), Ramp(<<rows, n_units + 1>>, 1, 1)}

\* The caches that a caller passes to HiddenLayer.backprop: none, the
\* activations alone, the activations and a mask.
HiddenCaches(rows, n_units) ==
    {<<>>, <<Ramp(<<rows, n_units>>, 0, 1)>>}
        \cup {<<Ramp(<<rows, n_units>>, 0, 1), m>> : m \in Masks(<<rows, n_units>>)}

BackpropHidden(l, Inputs) ==
    /\ call.op = "idle" /\ layer[l].cls = "HiddenLayer"
    /\ \E input_data \in Inputs :
         \E df_output \in Outputs(Rows(input_data), layer[l].n_units),
            cache \in HiddenCaches(Rows(input_data), layer[l].n_units) :
           \E draw \in (IF cache = <<>>
                         THEN DrawsFor(l, FALSE) ELSE {<<0, 0>>}) :
             HiddenBackpropCall(l, input_data, df_output, cache, draw)

PenaltyOf(l) ==
    \E which \in {"l1_penalty", "l2_penalty"} : PenaltyCall(l, which)

\* The caches that a caller passes to SoftmaxLayer: none, or activations.
SoftmaxCaches(rows, n_out) ==
    {<<>>, <<softmax(Ramp(<<rows, n_out>>, 0, 1))>>}

BackpropSoftmax(l, Inputs) ==
    /\ call.op = "idle" /\ layer[l].cls = "SoftmaxLayer"
    /\ \E input_data \in Inputs :
         \E targets \in Outputs(Rows(input_data), layer[l].n_units),
            cache \in SoftmaxCaches(Rows(input_data), layer[l].n_units) :
           SoftmaxBackpropCall(l, input_data, targets, cache)

\* backprop with a df_output and a cache whose row count is not input_data's.
BackpropHiddenRows(l, Inputs) ==
    /\ call.op = "idle" /\ layer[l].cls = "HiddenLayer"
    /\ \E input_data \in Inputs, rows \in Dims :
         /\ rows # Rows(input_data)
         /\ \E df_output \in Outputs(rows, layer[l].n_units),
               cache \in HiddenCaches(rows, layer[l].n_units) \ {<<>>} :
              HiddenBackpropCall(l, input_data, df_output, cache, <<0, 0>>)

\* backprop with targets and a cache whose row count is not input_data's.
BackpropSoftmaxRows(l, Inputs) ==
    /\ call.op = "idle" /\ layer[l].cls = "SoftmaxLayer"
    /\ \E input_data \in Inputs, rows \in Dims :
         /\ rows # Rows(input_data)
         /\ \E targets \in Outputs(rows, layer[l].n_units),
               cache \in SoftmaxCaches(rows, layer[l].n_units) :
              SoftmaxBackpropCall(l, input_data, targets, cache)

\* cache = layer.feed_forward(input_data, prediction), then
\* layer.backprop(input_data, df_output, cache) with a df_output of the
\* activations' shape.
BackpropFedForward(l, Inputs) ==
    /\ call.op = "idle" /\ layer[l].cls = "HiddenLayer"
    /\ \E input_data \in Inputs, prediction \in BOOLEAN :
         \E draw \in DrawsFor(l, prediction) :
           \E ff \in {HiddenFeedForward(Put(heap, "input_data", input_data),
                                        layer[l], prediction, draw)} :
             /\ ff.err = "none"
             /\ HiddenBackpropCall(l, input_data,
                                   Ramp(Val(ff.heap, "activations").shape, 1, 1),
                                   AsSeq(CacheVals(ff.heap, ff.cache)),
                                   <<0, 0>>)

MetricNames == {"test_error", "cross_entropy_error", "class_error", "kl_error"}

MetricOf(l, Inputs) ==
    /\ call.op = "idle" /\ layer[l].cls = "SoftmaxLayer"
    /\ \E method \in MetricNames, input_data \in Inputs,
          average \in {Omitted, Given(FALSE)},
          prediction \in {Omitted, Given(FALSE)} :
         \E targets \in Outputs(Rows(input_data), layer[l].n_units),
            cache \in SoftmaxCaches(Rows(input_data), layer[l].n_units) :
           MetricCall(l, method, input_data, targets, average, cache,
                      prediction)

NextNum ==
    \/ \E l \in Active :
         ConstructHiddenShaped(l, {"relu", "sigmoid"},
                               {PyFloat(Zero), PyFloat(Rat(1, 2))},
                               PenaltyWeights)
    \/ \E l \in Active :
         ConstructSoftmaxShaped(l, {<<Zero, Zero>>, <<One, Rat(1, 2)>>},
                                {"class_error", "accuracy"})
    \/ \E l \in Active :
         SetParametersOf(l, {layer[l].n_in}, {<<"gpu", "host", TRUE>>})
    \/ \E l \in Active : FeedForwardHidden(l, Shaped(-1))
    \/ \E l \in Active : BackpropHidden(l, Shaped(-1))
    \/ \E l \in Active : PenaltyOf(l)
    \/ \E l \in Active : FeedForwardSoftmax(l, Shaped(-1))
    \/ \E l \in Active : BackpropSoftmax(l, Shaped(-1))
    \/ \E l \in Active : BackpropHiddenRows(l, Shaped(-1))
    \/ \E l \in Active : BackpropFedForward(l, Shaped(-1))
    \/ \E l \in Active : BackpropSoftmaxRows(l, Shaped(-1))
    \/ \E l \in Active : MetricOf(l, Shaped(-1))
    \/ \E l \in Active, name \in MetricNames \ {"test_error"} :
         AssignTestErrorFct(l, name)
    \/ Release

SpecNum == Init /\ [][NextNum]_vars

\* The methods that C7 names.
ReadingMethods ==
    {"HiddenLayer.feed_forward", "HiddenLayer.backprop", "l1_penalty",
     "l2_penalty", "SoftmaxLayer.feed_forward", "SoftmaxLayer.backprop",
     "test_error", "class_error", "kl_error", "cross_entropy_error"}

\* C7: feed_forward and backprop of both classes, the l1_penalty and
\* l2_penalty accessors and the four error metrics leave every layer with
\* the arrays W and b it had, holding what they held, whether the call
\* returns or raises.
C7_ParametersKept ==
    [][call'.op \in ReadingMethods =>
         /\ layer' = layer
         /\ \A l \in LayerIds :
               layer[l].cls # "none" =>
                 /\ heap'[layer[l].W] = heap[layer[l].W]
                 /\ heap'[layer[l].b] = heap[layer[l].b]]_vars

\* A backprop without a cache, on a layer with dropout and both penalty
\* weights and with nonzero W and b, has returned nonzero gradients.
C7_Witness ==
    /\ Returned("HiddenLayer.backprop")
    /\ ~call.cache_given
    /\ call.mask_sampled
    /\ ~RatIsZero(Called.l1_penalty_weight)
    /\ ~RatIsZero(Called.l2_penalty_weight)
    /\ Wval(call.l) # Fill(Wval(call.l).shape, 0)
    /\ bval(call.l) # Fill(bval(call.l).shape, 0)
    /\ call.df_W # Fill(call.df_W.shape, 0)
    /\ call.df_b # Fill(call.df_b.shape, 0)

\* The heap on which the last call began: the layers' arrays and the
\* caller's arguments.
CallHeap ==
    PutCache(Put(Put(Put(heap, "input_data", call.input_data),
                     "df_output", call.df_output),
                 "targets", call.targets),
             call.cache)

\* What the metric of the name returns or raises for the arguments of the
\* last call, prediction being as given.
SameNamed(name, prediction) ==
    Metric(name, CallHeap, Called, call.average, CacheIds(call.cache),
           prediction)

\* C8: test_error returns or raises what the metric named by the layer's
\* test_error_fct at the time of the call does for the same input_data,
\* targets, average, cache and prediction (True when left out), the name
\* being class_error, kl_error or cross_entropy_error; for any other name it
\* raises ValueError and computes no metric.
C8_Dispatch ==
    call.op = "test_error" =>
        LET prediction == IF call.prediction_arg.given
                          THEN call.prediction_arg.x ELSE TRUE
        IN  IF Called.test_error_fct
                 \in {"class_error", "kl_error", "cross_entropy_error"}
            THEN /\ call.metric = Called.test_error_fct
                 /\ call.metric_prediction = prediction
                 /\ call.err = SameNamed(Called.test_error_fct, prediction).err
                 /\ call.scalar
                       = SameNamed(Called.test_error_fct, prediction).scalar
            ELSE /\ call.err = "ValueError"
                 /\ call.metric = "none"
                 /\ call.scalar = NoScalar

\* test_error has returned the kl_error of a layer that was constructed with
\* another test_error_fct, prediction left out and no cache given.
C8_Witness ==
    /\ Returned("test_error")
    /\ Called.test_error_fct = "kl_error"
    /\ call.metric = "kl_error"
    /\ call.scalar.kernel = "kl_divergence"
    /\ ~call.prediction_arg.given
    /\ ~call.cache_given

\* The entry (i, j) of a matrix, a rational.
Entry(a, i, j) == Rat(At(a, i, j), a.den)

RECURSIVE RatSum(_, _)
\* f[1] + ... + f[n], rationals
RatSum(f, n) == IF n = 0 THEN Zero ELSE RatAdd(f[n], RatSum(f, n - 1))

\* weight * term if the weight is nonzero, else nothing.
Decay(weight, term) == IF RatIsZero(weight) THEN Zero ELSE RatMul(weight, term)

\* C10: a backprop of either class that returns, returns
\*   df_W[i, j] = sum_k input_data[k, i] * delta[k, j]
\*                  + l1_penalty_weight * sign(W[i, j]) if that weight is nonzero
\*                  + l2_penalty_weight * W[i, j] if that weight is nonzero,
\*   df_b[j] = sum_k delta[k, j] and df_input[k, i] = sum_j delta[k, j] * W[i, j]
\* for every setting of the two penalty weights.
C10_WeightDecay ==
    (call.op \in {"HiddenLayer.backprop", "SoftmaxLayer.backprop"}
        /\ call.err = "none") =>
        LET x == call.input_data
            delta == call.delta
            W == Wval(call.l)
        IN  /\ call.df_W.shape = <<Cols(x), Cols(delta)>>
            /\ \A i \in 1..Cols(x), j \in 1..Cols(delta) :
                  Entry(call.df_W, i, j)
                    = RatAdd(RatAdd(RatSum([k \in 1..Rows(x) |->
                                              RatMul(Entry(x, k, i),
                                                     Entry(delta, k, j))],
                                           Rows(x)),
                                    Decay(Called.l1_penalty_weight,
                                          Rat(Sgn(At(W, i, j)), 1))),
                             Decay(Called.l2_penalty_weight, Entry(W, i, j)))
            /\ call.df_b.shape = <<Cols(delta)>>
            /\ \A j \in 1..Cols(delta) :
                  Rat(call.df_b.data[j], call.df_b.den)
                    = RatSum([k \in 1..Rows(delta) |-> Entry(delta, k, j)],
                             Rows(delta))
            /\ call.df_input.shape = <<Rows(delta), Rows(W)>>
            /\ \A k \in 1..Rows(delta), i \in 1..Rows(W) :
                  Entry(call.df_input, k, i)
                    = RatSum([j \in 1..Cols(delta) |->
                                RatMul(Entry(delta, k, j), Entry(W, i, j))],
                             Cols(delta))

\* A backprop has returned on a layer with both penalty weights, a W with an
\* entry that differs from its sign, a nonzero b and a nonzero delta.
C10_Witness ==
    /\ Returned("HiddenLayer.backprop")
    /\ ~RatIsZero(Called.l1_penalty_weight)
    /\ ~RatIsZero(Called.l2_penalty_weight)
    /\ Wval(call.l) # SignArr(Wval(call.l))
    /\ bval(call.l) # Fill(bval(call.l).shape, 0)
    /\ call.delta # Fill(call.delta.shape, 0)
    /\ Rows(call.input_data) > 1

\* ------------------------------------------------ failing calls, ownership

\* The caller's arrays are after the last call what they were when it began.
ArgumentsKept ==
    /\ call.after.input_data = call.input_data
    /\ call.after.df_output = call.df_output
    /\ call.after.targets = call.targets
    /\ \A i \in 1..Len(call.cache) : call.after.cache[i] = call.cache[i]

\* C11: whenever HiddenLayer.backprop or SoftmaxLayer.backprop raises, the
\* arrays that the caller passed in (input_data, df_output or targets, the
\* cache) hold what they held when the call began; in particular df_output
\* has not had the dropout mask applied to it.
C11_NoPartialFailure ==
    (call.op \in {"HiddenLayer.backprop", "SoftmaxLayer.backprop"}
        /\ call.err # "none") => ArgumentsKept

\* The (W, b) pair that layer k was given or holds, passed on by the caller.
HeldPair(k) ==
    [kind |-> "pair", W |-> heap[layer[k].W], b |-> heap[layer[k].b],
     Wid |-> layer[k].W, bid |-> layer[k].b,
     chars |-> 0, is_file |-> FALSE]

\* HiddenLayer(n_in, n_units, parameters = pair), pair being the one of
\* layer k.
ConstructHiddenHeld(l, k) ==
    /\ call.op = "idle" /\ layer[l].cls = "none" /\ layer[k].cls # "none"
    /\ HiddenInit(l, layer[k].n_in, layer[k].n_units, "relu", PyFloat(Zero),
                  HeldPair(k), None, Zero, Zero, None, NoArr)

\* SoftmaxLayer(n_in, n_out, parameters = pair) likewise.
ConstructSoftmaxHeld(l, k) ==
    /\ call.op = "idle" /\ layer[l].cls = "none" /\ layer[k].cls # "none"
    /\ SoftmaxInit(l, layer[k].n_in, layer[k].n_units, HeldPair(k), None,
                   Zero, Zero, None, "class_error", NoArr)

\* l.parameters = k.parameters
SetParametersFrom(l, k) ==
    /\ call.op = "idle" /\ layer[l].cls = "HiddenLayer" /\ layer[k].cls # "none"
    /\ SetParametersHeldCall(l, layer[k].W, layer[k].b, TRUE)

\* update_parameters with a rising gradient of each parameter's shape.
UpdateWith(l, Mults) ==
    /\ call.op = "idle" /\ layer[l].cls = "HiddenLayer"
    /\ \E m \in Mults :
         UpdateParametersCall(l,
            <<[gparam |-> Ramp(Wval(l).shape, -1, 1), mult |-> m],
              [gparam |-> Ramp(bval(l).shape, -1, 1), mult |-> m]>>)

NextOwn ==
    \/ \E l \in LayerIds :
         ConstructHiddenShaped(l, {"relu"}, {PyFloat(Zero)}, {<<Zero, Zero>>})
    \/ \E l \in LayerIds :
         ConstructSoftmaxShaped(l, {<<Zero, Zero>>}, {"class_error"})
    \/ \E l \in LayerIds : \E k \in LayerIds \ {l} : ConstructHiddenHeld(l, k)
    \/ \E l \in LayerIds : \E k \in LayerIds \ {l} : ConstructSoftmaxHeld(l, k)
    \/ \E l \in LayerIds :
         SetParametersOf(l, {layer[l].n_in}, {<<"gpu", "gpu", TRUE>>})
    \/ \E l \in LayerIds : \E k \in LayerIds \ {l} : SetParametersFrom(l, k)
    \/ \E l \in LayerIds : UpdateWith(l, {Rat(-1, 1)})
    \/ Release

SpecOwn == Init /\ [][NextOwn]_vars

\* The arrays that layer l holds.
Owned(l) == IF layer[l].cls = "none" THEN {} ELSE {layer[l].W, layer[l].b}

\* C12: no array is W or b of two layers, however the layers were constructed
\* and whatever was assigned to their parameters, and an update_parameters
\* on one layer leaves W and b of every other layer holding what they held.
C12_ExclusiveOwnership ==
    [][\A l \in LayerIds : \A k \in LayerIds \ {l} :
         /\ (Owned(l) \cap Owned(k) = {})'
         /\ (/\ call'.op = "HiddenLayer.update_parameters"
             /\ call'.l = l
             /\ layer[k].cls # "none")
               => /\ heap'[layer[k].W] = heap[layer[k].W]
                  /\ heap'[layer[k].b] = heap[layer[k].b]]_vars

\* ------------------------------------------- backprop on a returned cache

\* The cache of the last call is one that feed_forward of the same layer
\* returns for the call's input_data, in one of the two modes.
FromFeedForward ==
    \E prediction \in BOOLEAN, draw \in Draws :
        \E ff \in {HiddenFeedForward(Put(heap, "input_data", call.input_data),
                                     Called, prediction, draw)} :
            /\ ff.err = "none"
            /\ AsSeq(CacheVals(ff.heap, ff.cache)) = call.cache

\* C13: HiddenLayer.backprop given a cache that feed_forward of the same
\* layer returns for input_data (of length 2 or of length 1), and a df_output
\* of the activations' shape, returns the gradients without raising; it
\* multiplies df_output by the mask when the cache holds one, and leaves
\* df_output as it was when the cache holds none.
C13_AcceptsOwnCache ==
    (/\ call.op = "HiddenLayer.backprop"
     /\ call.cache_given
     /\ FromFeedForward
     /\ call.df_output.shape = call.cache[1].shape) =>
        /\ call.err = "none"
        /\ call.df_W.shape = Wval(call.l).shape
        /\ call.df_b.shape = bval(call.l).shape
        /\ call.df_input.shape = call.input_data.shape
        /\ call.after.df_output
              = IF Len(call.cache) = 2
                THEN MulArr(call.df_output, call.cache[2])
                ELSE call.df_output

====
